---- MODULE Spec2Model ----
(***************************************************************************)
(* Model of tools/main.cpp: run_scraper builds a shell command line from   *)
(* two text values, hands it to std::system, waits for the child, and      *)
(* writes one diagnostic line when the returned status is non-zero; main   *)
(* calls it once with two fixed values and returns 0.                      *)
(*                                                                         *)
(* Text is a sequence of one-character strings.  NUL stands for the '\0'   *)
(* character, which a std::string may hold but a C string ends at.         *)
(***************************************************************************)
EXTENDS Integers, Sequences, FiniteSets, TLC

VARIABLES pc, caller, url, prompt, command, shellArg, child, cause,
          childStatus, result, cerr, exitCode, systemCalls, sigchld

vars == <<pc, caller, url, prompt, command, shellArg, child, cause,
          childStatus, result, cerr, exitCode, systemCalls, sigchld>>

----------------------------------------------------------------------------
(* Bounds of the checked input space. *)

MaxLen == 2

NUL == "NUL"
DQ == "\""
BS == "\\"

(* Characters the bounded inputs are built from. *)
Chars == {";", DQ, NUL}

RECURSIVE TextsUpTo(_)
TextsUpTo(n) ==
    IF n = 0 THEN {<<>>}
    ELSE LET shorter == TextsUpTo(n - 1)
         IN  shorter \cup {Append(t, c) : t \in shorter, c \in Chars}

----------------------------------------------------------------------------
(* Text constants of the program. *)

ToolPath ==
    <<"p", "y", "t", "h", "o", "n", " ", "t", "o", "o", "l", "s", "/", "s", "c", "r",
      "a", "p", "e", "_", "t", "o", "o", "l", ".", "p", "y">>

target_url ==
    <<"h", "t", "t", "p", "s", ":", "/", "/", "e", "x", "a", "m", "p", "l", "e", ".",
      "c", "o", "m">>

extraction_prompt ==
    <<"E", "x", "t", "r", "a", "c", "t", " ", "a", "l", "l", " ", "t", "h", "e", " ",
      "p", "r", "o", "d", "u", "c", "t", " ", "n", "a", "m", "e", "s", " ", "a", "n",
      "d", " ", "t", "h", "e", "i", "r", " ", "p", "r", "i", "c", "e", "s", ".">>

ErrorLine == "Error: The Python scraping script failed to run."

(* The directive of the documented injection scenario. *)
InjectionDirective ==
    <<"a", DQ, " ", ";", " ", "r", "m", " ", "-", "r", "f", " ", "/", "t", "m", "p",
      "/", "x", " ", ";", " ", "e", "c", "h", "o", " ", DQ>>

(* Values a direct caller of run_scraper may pass. *)
Texts == TextsUpTo(MaxLen) \cup {target_url, extraction_prompt, InjectionDirective}

----------------------------------------------------------------------------
(* Pure helpers. *)

Contains(s, c) == \E i \in 1..Len(s) : s[i] = c

(* Each quote and backslash of s[lo..hi] preceded by a backslash. *)
RECURSIVE Esc(_, _, _)
Esc(s, lo, hi) ==
    IF lo > hi THEN <<>>
    ELSE IF lo = hi THEN (IF s[lo] \in {DQ, BS} THEN <<BS, s[lo]>> ELSE <<s[lo]>>)
    ELSE LET mid == (lo + hi) \div 2
         IN  Esc(s, lo, mid) \o Esc(s, mid + 1, hi)

(* operator+ chain of line 11 over escaped values. *)
CommandOf_escaped(u, p) ==
    ToolPath \o <<" ", DQ>> \o Esc(u, 1, Len(u)) \o <<DQ, " ", DQ>>
             \o Esc(p, 1, Len(p)) \o <<DQ>>

(* operator+ chain of line 11 with the two values swapped. *)
CommandOf_swapped(u, p) ==
    ToolPath \o <<" ", DQ>> \o p \o <<DQ, " ", DQ>> \o u \o <<DQ>>

(* Line 11: "python tools/scrape_tool.py \"" + url + "\" \"" + prompt + "\"" *)
CommandOf(u, p) ==
    ToolPath \o <<" ", DQ>> \o u \o <<DQ, " ", DQ>> \o p \o <<DQ>>

(* c_str() read as a C string: the characters before the first NUL. *)
CStr(s) ==
    LET nuls == {i \in 1..Len(s) : s[i] = NUL}
    IN  IF nuls = {} THEN s
        ELSE SubSeq(s, 1, (CHOOSE i \in nuls : \A j \in nuls : i <= j) - 1)

----------------------------------------------------------------------------
(* The command language of sh -c (dash, the shell std::system starts),     *)
(* for lines made of literal characters, blank, ';', double quote and      *)
(* backslash.  A line with any other character, or with a reserved word    *)
(* where a command name is expected, is outside the fragment: ShellParse   *)
(* then reports known = FALSE and says nothing about it.                   *)

Literal ==
    {"a", "b", "c", "d", "e", "f", "g", "h", "i", "j", "k", "l", "m", "n", "o",
     "p", "q", "r", "s", "t", "u", "v", "w", "x", "y", "z",
     "A", "B", "C", "D", "E", "F", "G", "H", "I", "J", "K", "L", "M", "N", "O",
     "P", "Q", "R", "S", "T", "U", "V", "W", "X", "Y", "Z",
     "0", "1", "2", "3", "4", "5", "6", "7", "8", "9",
     "/", ":", ".", "-", "_"}

Reserved ==
    {<<"i", "f">>, <<"t", "h", "e", "n">>, <<"e", "l", "s", "e">>,
     <<"e", "l", "i", "f">>, <<"f", "i">>, <<"d", "o">>, <<"d", "o", "n", "e">>,
     <<"c", "a", "s", "e">>, <<"e", "s", "a", "c">>, <<"w", "h", "i", "l", "e">>,
     <<"u", "n", "t", "i", "l">>, <<"f", "o", "r">>, <<"i", "n">>}

(* q: inside double quotes; esc: after a backslash; w, hw: the word being  *)
(* read and whether one is; plain: the word has no quoting so far; cmd,    *)
(* cmds: the words of the command being read and the commands read; err:   *)
(* a syntax error was met; unk: a reserved word stands as a command name.  *)
LexInit == [q |-> FALSE, esc |-> FALSE, w |-> <<>>, hw |-> FALSE, plain |-> TRUE,
            cmd |-> <<>>, cmds |-> <<>>, err |-> FALSE, unk |-> FALSE]

EndWord(st) ==
    IF ~st.hw THEN st
    ELSE [st EXCEPT !.cmd = Append(st.cmd, st.w),
                    !.unk = st.unk \/ (st.cmd = <<>> /\ st.plain /\ st.w \in Reserved),
                    !.w = <<>>, !.hw = FALSE, !.plain = TRUE]

(* An unquoted ';': it must end a command that has at least one word. *)
EndCommand(st) ==
    LET s1 == EndWord(st)
    IN  IF s1.cmd = <<>> THEN [s1 EXCEPT !.err = TRUE]
        ELSE [s1 EXCEPT !.cmds = Append(s1.cmds, s1.cmd), !.cmd = <<>>]

(* The end of the line: a backslash left over outside quotes is a literal  *)
(* backslash; the last command may be empty.                               *)
EndLine(st) ==
    LET s0 == IF st.esc /\ ~st.q
              THEN [st EXCEPT !.esc = FALSE, !.w = Append(st.w, BS)] ELSE st
        s1 == EndWord(s0)
    IN  [s1 EXCEPT !.cmds = IF s1.cmd # <<>> THEN Append(s1.cmds, s1.cmd) ELSE s1.cmds,
                   !.cmd = <<>>,
                   !.err = s1.err \/ s1.q]

LexStep(st, c) ==
    IF st.esc THEN
        IF st.q /\ c \notin {DQ, BS}
        THEN [st EXCEPT !.esc = FALSE, !.w = st.w \o <<BS, c>>]
        ELSE [st EXCEPT !.esc = FALSE, !.w = Append(st.w, c)]
    ELSE IF c = BS THEN [st EXCEPT !.esc = TRUE, !.hw = TRUE, !.plain = FALSE]
    ELSE IF c = DQ THEN [st EXCEPT !.q = ~st.q, !.hw = TRUE, !.plain = FALSE]
    ELSE IF ~st.q /\ c = " " THEN EndWord(st)
    ELSE IF ~st.q /\ c = ";" THEN EndCommand(st)
    ELSE [st EXCEPT !.w = Append(st.w, c), !.hw = TRUE]

(* The lexer state after reading s[lo..hi] from state st. *)
RECURSIVE Lex(_, _, _, _)
Lex(st, s, lo, hi) ==
    IF lo > hi THEN st
    ELSE IF lo = hi THEN LexStep(st, s[lo])
    ELSE LET mid == (lo + hi) \div 2
             left == Lex(st, s, lo, mid)
         IN  IF left.q \in BOOLEAN THEN Lex(left, s, mid + 1, hi) ELSE left

(* What sh makes of a line.  ok: the line has no syntax error; cmds: the   *)
(* simple commands (each a list of words) sh runs, none when the line has  *)
(* a syntax error; known: the line is within the fragment described above. *)
ShellParse(line) ==
    LET st == EndLine(Lex(LexInit, line, 1, Len(line)))
    IN  [known |-> ~st.unk /\ \A i \in 1..Len(line) :
                               line[i] \in Literal \cup {" ", ";", DQ, BS},
         ok |-> ~st.err,
         cmds |-> IF st.err THEN <<>> ELSE st.cmds]

----------------------------------------------------------------------------
(* What can become of the shell std::system starts, as a wait status.      *)

ExitCodes == {0, 1, 255}
Signals == {9}

Outcomes ==
    [kind : {"exit"}, n : ExitCodes] \cup
    [kind : {"signal"}, n : Signals] \cup
    [kind : {"noscript", "nointerp", "syntax"}, n : {0}]

(* The outcomes open to the shell for a line: a line with a syntax error   *)
(* runs nothing, so the shell ends with its syntax-error code unless a     *)
(* signal kills it first; a signal can end the shell on any line.          *)
OutcomesFor(line) ==
    LET parse == ShellParse(line)
    IN  IF parse.known /\ ~parse.ok
        THEN {o \in Outcomes : o.kind \in {"syntax", "signal"}}
        ELSE IF parse.known THEN {o \in Outcomes : o.kind # "syntax"}
        ELSE Outcomes

(* The exit code the shell reports for an outcome that is an exit. *)
ExitCodeOf(o) ==
    CASE o.kind = "exit" -> o.n
      [] o.kind = "noscript" -> 2       \* python: can't open file
      [] o.kind = "syntax" -> 2         \* sh: Syntax error
      [] o.kind = "nointerp" -> 127     \* sh: python: not found

WaitStatus(o) ==
    IF o.kind = "signal" THEN o.n ELSE ExitCodeOf(o) * 256

(* std::system when the shell could not be started: as if the shell had    *)
(* exited with 127.                                                        *)
SpawnFailed == 127 * 256

(* std::system when the status of the child cannot be collected: the child *)
(* ran, but SIGCHLD is ignored and the wait finds no child.                *)
StatusLost == -1

----------------------------------------------------------------------------
(* State machine. *)

NoText == <<>>

Init ==
    /\ pc = "start"
    /\ caller = "none"
    /\ url = NoText
    /\ prompt = NoText
    /\ command = NoText
    /\ shellArg = NoText
    /\ child = "none"
    /\ cause = "none"
    /\ childStatus = 0
    /\ result = 0
    /\ cerr = <<>>
    /\ exitCode = -1
    /\ systemCalls = 0
    /\ sigchld \in {"default", "ignored"}

(* main, lines 18-22: the two fixed values, then the call. *)
Main ==
    /\ pc = "start"
    /\ caller' = "main"
    /\ url' = target_url
    /\ prompt' = extraction_prompt
    /\ pc' = "build"
    /\ UNCHANGED <<command, shellArg, child, cause, childStatus, result, cerr,
                   exitCode, systemCalls, sigchld>>

(* run_scraper called directly with any two values (line 10). *)
Call(u, p) ==
    /\ pc = "start"
    /\ caller' = "direct"
    /\ url' = u
    /\ prompt' = p
    /\ pc' = "build"
    /\ UNCHANGED <<command, shellArg, child, cause, childStatus, result, cerr,
                   exitCode, systemCalls, sigchld>>

(* Line 11. *)
BuildCommand ==
    /\ pc = "build"
    /\ command' = CommandOf(url, prompt)
    /\ pc' = "system"
    /\ UNCHANGED <<caller, url, prompt, shellArg, child, cause, childStatus, result,
                   cerr, exitCode, systemCalls, sigchld>>

(* Line 12 writing the diagnostic before the child has run. *)
SystemCall_diag ==
    /\ pc = "system"
    /\ shellArg' = CStr(command)
    /\ systemCalls' = systemCalls + 1
    /\ cerr' = Append(cerr, ErrorLine)
    /\ \/ child' = "running" /\ UNCHANGED <<cause, childStatus>>
       \/ child' = "failed" /\ cause' = "nochild" /\ childStatus' = SpawnFailed
    /\ pc' = "wait"
    /\ UNCHANGED <<caller, url, prompt, command, result, exitCode, sigchld>>

(* Line 12, entry of std::system(command.c_str()): the shell is started    *)
(* on the C string, or no child can be created.                            *)
SystemCall ==
    /\ pc = "system"
    /\ shellArg' = CStr(command)
    /\ systemCalls' = systemCalls + 1
    /\ \/ child' = "running" /\ UNCHANGED <<cause, childStatus>>
       \/ child' = "failed" /\ cause' = "nochild" /\ childStatus' = SpawnFailed
    /\ pc' = "wait"
    /\ UNCHANGED <<caller, url, prompt, command, result, cerr, exitCode, sigchld>>

(* The child terminates (a step of the environment, not of the program). *)
ChildExit(o) ==
    /\ child = "running"
    /\ o \in OutcomesFor(shellArg)
    /\ child' = "terminated"
    /\ cause' = o.kind
    /\ childStatus' = WaitStatus(o)
    /\ UNCHANGED <<pc, caller, url, prompt, command, shellArg, result, cerr,
                   exitCode, systemCalls, sigchld>>

(* Line 12 with a timeout: returns while the child still runs. *)
SystemReturn_timeout ==
    /\ pc = "wait"
    /\ result' = IF child = "running" THEN 1
               ELSE IF child = "terminated" /\ sigchld = "ignored" THEN StatusLost
               ELSE childStatus
    /\ pc' = "check"
    /\ UNCHANGED <<caller, url, prompt, command, shellArg, child, cause, childStatus,
                   cerr, exitCode, systemCalls, sigchld>>

(* Line 12, return of std::system: only once the child is gone; the value  *)
(* is the child's wait status, or -1 when that status cannot be collected. *)
SystemReturn ==
    /\ pc = "wait"
    /\ child \in {"terminated", "failed"}
    /\ result' = IF child = "terminated" /\ sigchld = "ignored" THEN StatusLost
               ELSE childStatus
    /\ pc' = "check"
    /\ UNCHANGED <<caller, url, prompt, command, shellArg, child, cause, childStatus,
                   cerr, exitCode, systemCalls, sigchld>>

(* Lines 13-15 testing result > 0. *)
Check_positive ==
    /\ pc = "check"
    /\ cerr' = IF result > 0 THEN Append(cerr, ErrorLine) ELSE cerr
    /\ pc' = "return"
    /\ UNCHANGED <<caller, url, prompt, command, shellArg, child, cause, childStatus,
                   result, exitCode, systemCalls, sigchld>>

(* Lines 13-15 with the test inverted. *)
Check_inverted ==
    /\ pc = "check"
    /\ cerr' = IF result = 0 THEN Append(cerr, ErrorLine) ELSE cerr
    /\ pc' = "return"
    /\ UNCHANGED <<caller, url, prompt, command, shellArg, child, cause, childStatus,
                   result, exitCode, systemCalls, sigchld>>

(* Lines 13-15 testing for the exit code 1 only. *)
Check_onlyOne ==
    /\ pc = "check"
    /\ cerr' = IF result = 256 THEN Append(cerr, ErrorLine) ELSE cerr
    /\ pc' = "return"
    /\ UNCHANGED <<caller, url, prompt, command, shellArg, child, cause, childStatus,
                   result, exitCode, systemCalls, sigchld>>

(* Lines 13-15: if (result != 0) std::cerr << ... << std::endl; *)
Check ==
    /\ pc = "check"
    /\ cerr' = IF result # 0 THEN Append(cerr, ErrorLine) ELSE cerr
    /\ pc' = "return"
    /\ UNCHANGED <<caller, url, prompt, command, shellArg, child, cause, childStatus,
                   result, exitCode, systemCalls, sigchld>>

(* Line 23 returning the status instead of 0. *)
Return_status ==
    /\ pc = "return"
    /\ exitCode' = IF caller = "main" THEN (IF result = 0 THEN 0 ELSE 1) ELSE exitCode
    /\ pc' = "Done"
    /\ UNCHANGED <<caller, url, prompt, command, shellArg, child, cause, childStatus,
                   result, cerr, systemCalls, sigchld>>

(* Line 16 and then line 23 retrying after a failure. *)
Return_retry ==
    /\ pc = "return"
    /\ IF result # 0 /\ systemCalls < 2
       THEN pc' = "system" /\ UNCHANGED exitCode
       ELSE /\ exitCode' = IF caller = "main" THEN 0 ELSE exitCode
            /\ pc' = "Done"
    /\ UNCHANGED <<caller, url, prompt, command, shellArg, child, cause, childStatus,
                   result, cerr, systemCalls, sigchld>>

(* Line 16: run_scraper returns; under main, line 23: return 0. *)
Return ==
    /\ pc = "return"
    /\ exitCode' = IF caller = "main" THEN 0 ELSE exitCode
    /\ pc' = "Done"
    /\ UNCHANGED <<caller, url, prompt, command, shellArg, child, cause, childStatus,
                   result, cerr, systemCalls, sigchld>>

Next ==
    \/ Main
    \/ \E u \in Texts, p \in Texts : Call(u, p)
    \/ BuildCommand
    \/ SystemCall
    \/ \E o \in Outcomes : ChildExit(o)
    \/ SystemReturn
    \/ Check
    \/ Return

Spec == Init /\ [][Next]_vars

(* The program's own steps are taken when enabled; whether the child ever  *)
(* terminates is up to the child.                                          *)
Program == Main \/ (\E u \in Texts, p \in Texts : Call(u, p)) \/ BuildCommand
           \/ SystemCall \/ SystemReturn \/ Check \/ Return

FairSpec == Spec /\ WF_vars(Program)

TypeOK ==
    /\ pc \in {"start", "build", "system", "wait", "check", "return", "Done"}
    /\ caller \in {"none", "main", "direct"}
    /\ child \in {"none", "running", "terminated", "failed"}
    /\ systemCalls \in 0..2
    /\ Len(cerr) \in 0..2
    /\ sigchld \in {"default", "ignored"}
    /\ result \in {StatusLost, SpawnFailed} \cup {WaitStatus(o) : o \in Outcomes}

----------------------------------------------------------------------------
(* Properties. *)

Quoted(t) == <<DQ>> \o t \o <<DQ>>

(* The command line the specification describes for two values. *)
ExpectedLine(u, p) == ToolPath \o <<" ">> \o Quoted(u) \o <<" ">> \o Quoted(p)

Handed == child # "none"

(* C1 as stated: for every target and directive without a quote character, *)
(* the line handed to the shell is the tool path, a blank, the quoted      *)
(* target, a blank and the quoted directive, both values verbatim.         *)
C1_QuoteFreeVerbatim ==
    (Handed /\ ~Contains(url, DQ) /\ ~Contains(prompt, DQ))
        => shellArg = ExpectedLine(url, prompt)

(* C1 amended: the same for every target and directive that contain       *)
(* neither a quote character nor a NUL character (a C string ends at the   *)
(* first NUL, so std::system sees only what precedes it).                  *)
C1_QuoteAndNulFreeVerbatim ==
    (Handed /\ ~Contains(url, DQ) /\ ~Contains(prompt, DQ)
            /\ ~Contains(url, NUL) /\ ~Contains(prompt, NUL))
        => shellArg = ExpectedLine(url, prompt)

C1_Witness ==
    /\ Handed
    /\ caller = "direct"
    /\ url = <<";">>
    /\ prompt = <<";", ";">>
    /\ shellArg = ToolPath \o <<" ", DQ, ";", DQ, " ", DQ, ";", ";", DQ>>

(* C2: a run whose child status is 0 reaches Done with an empty error      *)
(* stream.                                                                 *)
C2_SuccessIsSilent ==
    (pc = "Done" /\ child = "terminated" /\ childStatus = 0) => cerr = <<>>

(* C3: a run whose child status is non-zero ends with exactly one line on  *)
(* the error stream, the fixed text; no dispatch writes more than one.     *)
C3_OneFixedLineOnFailure ==
    /\ Len(cerr) <= 1
    /\ (pc \in {"return", "Done"} /\ child = "terminated" /\ childStatus # 0)
           => cerr = <<ErrorLine>>

C3_Witness ==
    /\ pc = "Done" /\ child = "terminated" /\ cause = "exit"
    /\ childStatus = 255 * 256
    /\ cerr = <<"Error: The Python scraping script failed to run.">>

(* C4: the program's exit code is 0 in every run of main that ends,        *)
(* whatever became of the child.                                           *)
C4_ExitCodeAlwaysZero ==
    (pc = "Done" /\ caller = "main") => exitCode = 0

C4_Witness ==
    pc = "Done" /\ caller = "main" /\ result # 0 /\ cerr # <<>> /\ exitCode = 0

(* C5: a run of main calls std::system exactly once, on the line built     *)
(* from the two fixed values, and never again after the child is gone.     *)
C5_ExactlyOneFixedInvocation ==
    caller = "main" =>
        /\ systemCalls <= 1
        /\ Handed => /\ systemCalls = 1
                     /\ shellArg = ExpectedLine(target_url, extraction_prompt)
        /\ pc = "Done" => systemCalls = 1

C5_Witness ==
    /\ pc = "Done" /\ caller = "main" /\ systemCalls = 1 /\ childStatus # 0
    /\ child = "terminated"
    /\ ShellParse(shellArg).cmds =
          << <<SubSeq(ToolPath, 1, 6), SubSeq(ToolPath, 8, 27),
               target_url, extraction_prompt>> >>

(* C6: while the child runs the program is not Done and has written        *)
(* nothing (no timeout, no cancellation); once the child has terminated    *)
(* the program reaches Done.                                               *)
C6_BlocksUntilChildTerminates ==
    /\ [](child = "running" => (pc = "wait" /\ cerr = <<>>))
    /\ (child = "terminated" ~> pc = "Done")

C6_Witness ==
    child = "running" /\ pc = "wait" /\ systemCalls = 1

(* The injected fragment as a simple command. *)
RmCommand == << <<"r", "m">>, <<"-", "r", "f">>, <<"/", "t", "m", "p", "/", "x">> >>

Plain(t) == ~Contains(t, DQ) /\ ~Contains(t, NUL) /\ ~Contains(t, BS)

(* C7: with the directive  a" ; rm -rf /tmp/x ; echo "  and a plain        *)
(* target, the line handed to the shell holds the directive verbatim, the  *)
(* directive is not one argument of the tool, and rm -rf /tmp/x is a       *)
(* separate command of the line.                                           *)
C7_InjectionReachesShell ==
    (Handed /\ prompt = InjectionDirective /\ Plain(url)) =>
        LET parse == ShellParse(shellArg)
            at == Len(ToolPath) + Len(url) + 6
        IN  /\ SubSeq(shellArg, at, at + Len(prompt) - 1) = prompt
            /\ Len(shellArg) = at + Len(prompt)
            /\ parse.ok
            /\ Len(parse.cmds) = 3
            /\ parse.cmds[1] = <<SubSeq(ToolPath, 1, 6), SubSeq(ToolPath, 8, 27),
                                 url, <<"a">> >>
            /\ parse.cmds[2] = RmCommand
            /\ \A i \in 1..Len(parse.cmds) : \A j \in 1..Len(parse.cmds[i]) :
                   parse.cmds[i][j] # prompt

C7_Witness ==
    /\ Handed /\ prompt = InjectionDirective /\ url = target_url
    /\ ShellParse(shellArg).cmds[2] = RmCommand

ToolMissing == cause \in {"noscript", "nointerp"}

(* C8 as stated: when the tool is missing (no script, or no interpreter)   *)
(* nothing is written to the error stream.                                 *)
C8_MissingToolIsSilent ==
    (pc = "Done" /\ ToolMissing) => cerr = <<>>

(* C8 amended: when the tool is missing the shell reports a non-zero       *)
(* status and the run writes the one generic diagnostic line, the same as  *)
(* for any other failure.                                                  *)
C8_MissingToolGetsGenericLine ==
    (pc = "Done" /\ ToolMissing) => (result # 0 /\ cerr = <<ErrorLine>>)

C8_Witness ==
    pc = "Done" /\ cause = "nointerp" /\ result = 127 * 256 /\ Len(cerr) = 1

(* C9: the command is built before the child is started, the error stream  *)
(* changes only at the status test after the child is gone, nothing is     *)
(* written while the child runs, and no step leaves Done.                  *)
Phase == IF pc = "Done" THEN "Done" ELSE "Running"

C9_RunningThenDone ==
    /\ [](child = "running" => cerr = <<>>)
    /\ [][(child = "none" /\ child' # "none")
              => (command = CommandOf(url, prompt) /\ command' = command)]_vars
    /\ [][cerr' # cerr => (pc = "check" /\ child \in {"terminated", "failed"}
                           /\ Phase' = "Running")]_vars
    /\ [][Phase = "Done" => vars' = vars]_vars

C9_Witness ==
    Phase = "Done" /\ cerr = <<ErrorLine>> /\ child = "terminated" /\ caller = "direct"

(* C10: whatever the cause, a non-zero value returned by std::system gives *)
(* the same single line, and nothing else tells the caller: main still     *)
(* exits with 0.                                                           *)
C10_SameLineForEveryCause ==
    (pc = "Done" /\ result # 0) =>
        /\ cerr = <<ErrorLine>>
        /\ cause \in {"exit", "signal", "noscript", "nointerp", "syntax", "nochild"}
        /\ caller = "main" => exitCode = 0

C10_Witness ==
    pc = "Done" /\ cause = "signal" /\ result = -1 /\ cerr = <<ErrorLine>>
====
